---- MODULE Spec2Model ----
(***************************************************************************)
(* photomgr (package photomgr): the PTT listing session of src/ptt.go and  *)
(* src/base.go, the Firecrawl call, the extraction of one article and the  *)
(* download of its images by Crawler and its workers.                      *)
(*                                                                         *)
(* Strings are sequences of atoms.  An atom is a short TLA+ string that    *)
(* stands for a run of characters the code never looks inside; every       *)
(* character the code tests for (the runes of the category marker, of the  *)
(* full-score token, "X", the                                              *)
(* digits, the sign, the blank, "http", "/", ".html") is an atom of its    *)
(* own, so HasPrefix, TrimSpace, Split and Atoi are computed on atoms the  *)
(* way the library computes them on bytes.  The runes outside ASCII are    *)
(* written by name: "BAO" is the rune 爆, "ZHENG" "MEI" are 正妹 and         *)
(* "GONG" "GAO" are 公告.                                                   *)
(*                                                                         *)
(* Markdown is a sequence of lines.  The regular expression postRegex is   *)
(* evaluated line by line (see postRegexMatchAt): inside a line "." ranges *)
(* over the line, and "\s*" is the only part of the expression that can    *)
(* cross a line end.  The expressions of GetAllFromURL are evaluated the   *)
(* same way.                                                               *)
(*                                                                         *)
(* Each part has a specification of its own over the same variables: Spec  *)
(* (the session), SpecScore, SpecExtract, SpecFetch, SpecArticle (a pure   *)
(* function applied to every input) and SpecCrawl (Crawler, the channel,   *)
(* the WaitGroup and the workers, one step per blocking operation).        *)
(***************************************************************************)
EXTENDS Integers, Sequences, FiniteSets, TLC

VARIABLES
    storedPost,   \* baseCrawler.storedPost: the session, a sequence of PostDoc
    lastCall,     \* the most recent ParsePttPageByIndex / ParseSearchByKeyword call
    prevCall,     \* whether the call before lastCall was the same call, and its result
    bn,           \* the activation record of ParsePttByNumber
    tok, score, scoreDone,   \* parsePushCount: argument, result, applied
    md, out, extractDone,    \* parseMarkdownToPostDocs: argument, result, applied
    fenv, fres, fdone,       \* callFirecrawlAPI: what the service does, result, applied
    areply, ares, adone,     \* GetAllFromURL: what the service does, result, applied
    acc,          \* the most recent call of an indexed accessor and what it gave
    crawler,      \* the activation of PTT.Crawler: position, workerNum, counters
    images,       \* the links extractImageLinks finds in the page of the post
    workers,      \* the goroutines running baseCrawler.worker
    wg,           \* the counter of the sync.WaitGroup
    linkChanClosed,   \* close(linkChan) has been executed
    disk,         \* the directory of the post and the files in it
    handled       \* what has become of each link of images

sessVars    == <<storedPost, lastCall, prevCall, bn>>
scoreVars   == <<tok, score, scoreDone>>
extractVars == <<md, out, extractDone>>
fetchVars   == <<fenv, fres, fdone>>
articleVars == <<areply, ares, adone>>
accessVars  == <<acc>>
crawlVars   == <<crawler, images, workers, wg, linkChanClosed, disk, handled>>
vars        == <<storedPost, lastCall, prevCall, bn, tok, score, scoreDone,
                 md, out, extractDone, fenv, fres, fdone, areply, ares, adone, acc,
                 crawler, images, workers, wg, linkChanClosed, disk, handled>>

----------------------------------------------------------------------------
(* Bounds *)

MaxTokLen == 3     \* longest push token tried on parsePushCount
MaxItems  == 3     \* longest listing (in blocks and loose lines) tried on the parser
MaxStored == 4     \* the session is not grown beyond this many records
MaxPage   == 3     \* highest page index requested
MaxNum    == 3     \* highest minimum count asked of ParsePttByNumber
MaxParts  == 3     \* longest article (in metadata blocks and loose lines) tried
MaxLinks  == 2     \* most image links in the page of a post
MaxWorkers == 2    \* highest workerNum given to Crawler

----------------------------------------------------------------------------
(* strings *)

SP == " "

HasPrefix(s, p) == Len(s) >= Len(p) /\ SubSeq(s, 1, Len(p)) = p

RECURSIVE TrimLeft(_)
TrimLeft(s) == IF s # <<>> /\ Head(s) = SP THEN TrimLeft(Tail(s)) ELSE s

RECURSIVE TrimRight(_)
TrimRight(s) ==
    IF s # <<>> /\ s[Len(s)] = SP THEN TrimRight(SubSeq(s, 1, Len(s) - 1)) ELSE s

TrimSpace(s) == TrimRight(TrimLeft(s))

Digits == {"0", "1", "2", "3", "4", "5", "6", "7", "8", "9"}

DigitVal(d) ==
    CASE d = "0" -> 0 [] d = "1" -> 1 [] d = "2" -> 2 [] d = "3" -> 3
      [] d = "4" -> 4 [] d = "5" -> 5 [] d = "6" -> 6 [] d = "7" -> 7
      [] d = "8" -> 8 [] d = "9" -> 9

RECURSIVE DecVal(_)
DecVal(ds) ==
    IF ds = <<>> THEN 0
    ELSE 10 * DecVal(SubSeq(ds, 1, Len(ds) - 1)) + DigitVal(ds[Len(ds)])

\* strconv.Atoi: an optional sign, then one or more decimal digits.
Atoi(s) ==
    LET signed == s # <<>> /\ Head(s) \in {"+", "-"}
        ds     == IF signed THEN Tail(s) ELSE s
        valid  == ds # <<>> /\ \A i \in 1..Len(ds) : ds[i] \in Digits
    IN  IF ~valid THEN [val |-> 0, err |-> TRUE]
        ELSE [val |-> IF signed /\ Head(s) = "-" THEN 0 - DecVal(ds) ELSE DecVal(ds),
              err |-> FALSE]

RECURSIVE Itoa(_)
Itoa(n) ==
    LET d == CHOOSE c \in Digits : DigitVal(c) = n % 10
    IN  IF n < 10 THEN <<d>> ELSE Itoa(n \div 10) \o <<d>>

\* strings.Split(s, sep)[last] for a one-atom separator
RECURSIVE LastField(_, _)
LastField(s, sep) ==
    IF \E i \in 1..Len(s) : s[i] = sep
    THEN LastField(SubSeq(s, 1 + (CHOOSE i \in 1..Len(s) :
                                     s[i] = sep /\ \A j \in 1..(i-1) : s[j] # sep),
                          Len(s)), sep)
    ELSE s

\* strings.Split(s, sep)[0] for a one-atom separator
FirstField(s, sep) ==
    IF \E i \in 1..Len(s) : s[i] = sep
    THEN SubSeq(s, 1, (CHOOSE i \in 1..Len(s) :
                          s[i] = sep /\ \A j \in 1..(i-1) : s[j] # sep) - 1)
    ELSE s

----------------------------------------------------------------------------
(* src/ptt.go: score conversion and category filter *)

extractArticleIDFromURL(url) == FirstField(LastField(url, "/"), ".html")

\* the atoms of a URL in which threadId, the expression  M.(\d*).  , finds a
\* match: an M with at least two more characters after it.  Of the atoms
\* the URLs here are made of, the article ids are the only ones with an M.
ThreadIdAtoms == {"M.1.A.AAA", "M.2.A.BBB", "M.3.A.CCC", "M.4.A.DDD"}

\* threadId.Match([]byte(url))
HasValidURL(url) == \E i \in 1..Len(url) : url[i] \in ThreadIdAtoms

\* a faulty variant of parsePushCount: the full-score token is not recognised
parsePushCountNoBao(pushStr) ==
    LET s == TrimSpace(pushStr)
    IN  IF HasPrefix(s, <<"X">>) THEN 0
        ELSE IF Atoi(s).err THEN 0 ELSE Atoi(s).val

parsePushCount(pushStr) ==
    LET s == TrimSpace(pushStr)
    IN  IF s = <<"BAO">> THEN 100
        ELSE IF HasPrefix(s, <<"X">>) THEN 0
        ELSE IF Atoi(s).err THEN 0 ELSE Atoi(s).val

BeautyTag == <<"[", "ZHENG", "MEI", "]">>

\* the regular expression ^\[正妹\].* on a title without line ends
CheckTitleWithBeauty(title) == HasPrefix(title, BeautyTag)

----------------------------------------------------------------------------
(* src/ptt.go: parseMarkdownToPostDocs *)

(* A line is [kind, text]:                                                 *)
(*   heading  "## " text            text is the title, not empty           *)
(*   link     "[Read More](" text ")"   text is the URL                    *)
(*   meta     "Author: a Date: d Push: " text   text is the push token     *)
(*   blank    a line of white space only                                   *)
(*   text     any other line, text is its content                          *)
(* and in the markdown of an article                                       *)
(*   author   "**Author**:" text                                           *)
(*   board    "**Board**:" text                                            *)
(*   title    "**Title**:" text     text may be white space only           *)
(*   date     "**Date**:" text                                             *)
(*   image    "![](" text ")"       text is the target of the reference    *)
(*   sig      text                  text begins with a signature marker    *)
Line(kind, text) == [kind |-> kind, text |-> text]

BlankLine == Line("blank", <<>>)

\* the characters of a line, as the expression sees them
LineText(l) ==
    CASE l.kind = "heading" -> <<"##", SP>> \o l.text
      [] l.kind = "link"    -> <<"[", "Read More", "]", "(">> \o l.text \o <<")">>
      [] l.kind = "meta"    -> <<"Author:", SP, "a", SP, "Date:", SP, "d", SP,
                                 "Push:", SP>> \o l.text
      [] l.kind = "blank"   -> <<>>
      [] l.kind = "text"    -> l.text
      [] l.kind = "author"  -> <<"**Author**:">> \o l.text
      [] l.kind = "board"   -> <<"**Board**:">> \o l.text
      [] l.kind = "title"   -> <<"**Title**:">> \o l.text
      [] l.kind = "date"    -> <<"**Date**:">> \o l.text
      [] l.kind = "image"   -> <<"![", "]", "(">> \o l.text \o <<")">>
      [] l.kind = "sig"     -> l.text

\* the first line after line i that "\s*" cannot swallow, 0 if there is none
NextNonBlank(L, i) ==
    IF \E j \in (i+1)..Len(L) : L[j].kind # "blank"
    THEN CHOOSE j \in (i+1)..Len(L) :
             L[j].kind # "blank" /\ \A k \in (i+1)..(j-1) : L[k].kind = "blank"
    ELSE 0

NoMatch == [ok |-> FALSE, title |-> <<>>, url |-> <<>>, push |-> <<>>, last |-> 0]

\* postRegex tried at the start of line i.  The expression is
\*   ^##\s*(.*?)\s*\n  .*?\[.*?\]\((.*?)\)\s*\n  Author:\s*(.*?)\s*Date:\s*(.*?)\s*Push:\s*(.*)
\* Line i is a heading; the first \s*\n skips blank lines to the link line j;
\* the second \s*\n skips blank lines to the Author line k, which starts in
\* column 0.  The \s* after Push: is greedy and also matches line ends, so
\* when nothing but white space follows Push: on line k it runs on to the
\* next line that is not blank, and the last group is the whole of that line.
\* last is the line the match ends in.
postRegexMatchAt(L, i) ==
    LET j == NextNonBlank(L, i)
        k == IF j = 0 THEN 0 ELSE NextNonBlank(L, j)
        n == IF k = 0 THEN 0 ELSE NextNonBlank(L, k)
    IN  IF L[i].kind = "heading" /\ j # 0 /\ L[j].kind = "link"
           /\ k # 0 /\ L[k].kind = "meta"
        THEN IF TrimLeft(L[k].text) # <<>>
             THEN [ok |-> TRUE, title |-> L[i].text, url |-> L[j].text,
                   push |-> TrimLeft(L[k].text), last |-> k]
             ELSE IF n # 0
             THEN [ok |-> TRUE, title |-> L[i].text, url |-> L[j].text,
                   push |-> TrimLeft(LineText(L[n])), last |-> n]
             ELSE [ok |-> TRUE, title |-> L[i].text, url |-> L[j].text,
                   push |-> <<>>, last |-> Len(L)]
        ELSE NoMatch

\* postRegex.FindAllStringSubmatch(markdown, -1), searching from line i
RECURSIVE FindAllStringSubmatch(_, _)
FindAllStringSubmatch(L, i) ==
    IF i > Len(L) THEN <<>>
    ELSE LET m == postRegexMatchAt(L, i)
         IN  IF m.ok THEN <<m>> \o FindAllStringSubmatch(L, m.last + 1)
             ELSE FindAllStringSubmatch(L, i + 1)

PostDoc(id, title, url, like) ==
    [ArticleID |-> id, ArticleTitle |-> title, URL |-> url, Likeint |-> like]

\* a faulty variant of PostsOfMatch: the category filter is left out
PostsOfMatchNoFilter(m, baseAddress) ==
    LET title == TrimSpace(m.title)
        url0  == TrimSpace(m.url)
        url   == IF HasPrefix(url0, <<"http">>) THEN url0 ELSE baseAddress \o url0
    IN  <<PostDoc(extractArticleIDFromURL(url), title, url,
                  parsePushCount(TrimSpace(m.push)))>>

\* the body of the loop over matches: one match gives one record or none
PostsOfMatch(m, baseAddress) ==
    LET title == TrimSpace(m.title)
        url0  == TrimSpace(m.url)
        url   == IF HasPrefix(url0, <<"http">>) THEN url0 ELSE baseAddress \o url0
    IN  IF ~CheckTitleWithBeauty(title) THEN <<>>
        ELSE <<PostDoc(extractArticleIDFromURL(url), title, url,
                       parsePushCount(TrimSpace(m.push)))>>

RECURSIVE PostsOfMatches(_, _)
PostsOfMatches(ms, baseAddress) ==
    IF ms = <<>> THEN <<>>
    ELSE PostsOfMatch(Head(ms), baseAddress) \o PostsOfMatches(Tail(ms), baseAddress)

parseMarkdownToPostDocs(markdown, baseAddress) ==
    PostsOfMatches(FindAllStringSubmatch(markdown, 1), baseAddress)

----------------------------------------------------------------------------
(* src/ptt.go: NewPTT and the resource identifiers *)

baseAddress   == <<"http", "s", "://", "www.ptt.cc">>
entryAddress  == baseAddress \o <<"/", "bbs", "/", "Beauty", "/", "index", ".html">>
SearchAddress == baseAddress \o <<"/", "bbs", "/", "Beauty", "/", "search?q=">>

\* a faulty variant of PageURL: every page is fetched from the entry address
PageURLEntryOnly(page) == entryAddress

\* the targetURL of ParsePttPageByIndex
PageURL(page) ==
    IF page > 0
    THEN baseAddress \o <<"/", "bbs", "/", "Beauty", "/", "index">> \o Itoa(page)
                     \o <<".html">>
    ELSE entryAddress

----------------------------------------------------------------------------
(* Inputs: listings as the upstream can serve them *)

TitleA   == BeautyTag \o <<SP, "A">>
TitleB   == BeautyTag \o <<SP, "B">>
TitleRe  == <<"Re:", SP>> \o BeautyTag \o <<SP, "C">>
TitleAnn == <<"[", "GONG", "GAO", "]", SP, "D">>
Titles   == {TitleA, TitleB, TitleRe, TitleAnn}
TitleE   == BeautyTag \o <<SP, "E">>

\* the link of a post: absolute, except for TitleB whose link is relative;
\* the link under TitleE leads back to the board and names no article
UrlOf(title) ==
    CASE title = TitleA   -> baseAddress \o <<"/", "bbs", "/", "Beauty", "/", "M.1.A.AAA", ".html">>
      [] title = TitleB   -> <<"/", "bbs", "/", "Beauty", "/", "M.2.A.BBB", ".html">>
      [] title = TitleRe  -> baseAddress \o <<"/", "bbs", "/", "Beauty", "/", "M.3.A.CCC", ".html">>
      [] title = TitleAnn -> baseAddress \o <<"/", "bbs", "/", "Beauty", "/", "M.4.A.DDD", ".html">>
      [] title = TitleE   -> <<"/", "bbs", "/", "Beauty", "/", "index", ".html">>

PushTokens == {<<"1", "5">>, <<"BAO">>, <<>>}

\* a post block: heading line, link line, Author/Date/Push line
Block(title, push) ==
    <<Line("heading", title), Line("link", UrlOf(title)), Line("meta", push)>>

Blocks == {Block(t, p) : t \in Titles, p \in PushTokens}

\* what a listing is made of: post blocks, blank lines and loose lines
Items == Blocks \cup {<<BlankLine>>, <<Line("text", <<"7">>)>>,
                      <<Line("heading", TitleA)>>}

RECURSIVE Flatten(_)
Flatten(items) == IF items = <<>> THEN <<>> ELSE Head(items) \o Flatten(Tail(items))

ItemSeqs(n) == UNION {[1..k -> Items] : k \in 0..n}

\* the listing of the test file: five qualifying blocks, the fourth with no token
mockIndexMarkdownPushCounts ==
    Flatten(<<<<BlankLine>>, Block(TitleA, <<"1", "5">>), <<BlankLine>>,
              Block(TitleB, <<"BAO">>), <<BlankLine>>,
              Block(TitleA, <<"X", "1">>), <<BlankLine>>,
              Block(TitleB, <<>>), <<BlankLine>>,
              Block(TitleA, <<"M">>)>>)

mockIndexMarkdownPage1 ==
    Flatten(<<<<BlankLine>>, Block(TitleA, <<"1", "0">>), <<BlankLine>>,
              Block(TitleAnn, <<"M">>), <<BlankLine>>,
              Block(TitleRe, <<"5">>), <<BlankLine>>,
              Block(TitleB, <<"BAO">>)>>)

mockIndexMarkdownPage2 == Flatten(<<<<BlankLine>>, Block(TitleA, <<"2", "0">>)>>)

mockIndexMarkdownNoValidPosts ==
    Flatten(<<<<BlankLine>>, Block(TitleAnn, <<"M">>), <<BlankLine>>,
              Block(TitleRe, <<"X", "5">>)>>)

\* a listing with a qualifying block whose link is not the link of an article
mockIndexMarkdownNoArticleId == Flatten(<<<<BlankLine>>, Block(TitleE, <<"3">>)>>)

Markdowns == {Flatten(q) : q \in ItemSeqs(MaxItems)}
                 \cup {mockIndexMarkdownPushCounts, mockIndexMarkdownPage1,
                       mockIndexMarkdownPage2, mockIndexMarkdownNoValidPosts,
                       mockIndexMarkdownNoArticleId}

TokAtoms == {"BAO", "X", "M", "4", "2", "-", SP}

Tokens == UNION {[1..k -> TokAtoms] : k \in 0..MaxTokLen}

----------------------------------------------------------------------------
(* src/ptt.go: callFirecrawlAPI *)

\* What the environment does to one request: key is whether FIRECRAWL_KEY is
\* set; net is "ok", "fail" (client.Do returns an error) or "readfail" (the
\* body cannot be read); status is the HTTP status; json is whether the body
\* parses as a FirecrawlResponse; success, error (an error object is present),
\* code, message and markdown are the fields of the parsed body.
Reply(key, net, status, json, success, error, code, message, markdown) ==
    [key |-> key, net |-> net, status |-> status, json |-> json,
     success |-> success, error |-> error, code |-> code, message |-> message,
     markdown |-> markdown]

StatusOK == 200

OkReply(markdown) == Reply(TRUE, "ok", StatusOK, TRUE, TRUE, FALSE, 0, <<>>, markdown)

NoReply == Reply(FALSE, "ok", 0, FALSE, FALSE, FALSE, 0, <<>>, <<>>)

Failure(err, sent, status, code, message) ==
    [markdown |-> <<>>, err |-> err, sent |-> sent, status |-> status,
     code |-> code, message |-> message]

NoResult == Failure("", FALSE, 0, 0, <<>>)

\* a faulty variant of callFirecrawlAPI: every 2xx status is taken as success
callFirecrawlAPIAny2xx(targetURL, reply) ==
    IF ~reply.key THEN Failure("FIRECRAWL_KEY not set", FALSE, 0, 0, <<>>)
    ELSE IF reply.net = "fail"
    THEN Failure("error making request to Firecrawl API", TRUE, 0, 0, <<>>)
    ELSE IF reply.status \notin 200..299
    THEN Failure("Firecrawl API request failed with status", TRUE, reply.status, 0, <<>>)
    ELSE IF reply.net = "readfail"
    THEN Failure("error reading response body", TRUE, 0, 0, <<>>)
    ELSE IF ~reply.json
    THEN Failure("error unmarshalling Firecrawl API response", TRUE, 0, 0, <<>>)
    ELSE IF ~reply.success
    THEN (IF reply.error
          THEN Failure("Firecrawl API error", TRUE, 0, reply.code, reply.message)
          ELSE Failure("Firecrawl API call was not successful, but no error message was provided",
                       TRUE, 0, 0, <<>>))
    ELSE IF reply.markdown = <<>>
    THEN Failure("Firecrawl API returned success but markdown content is empty",
                 TRUE, 0, 0, <<>>)
    ELSE [markdown |-> reply.markdown, err |-> "", sent |-> TRUE, status |-> 0,
          code |-> 0, message |-> <<>>]

\* what callFirecrawlAPI returns: markdown and err (err = "" is nil); status,
\* code and message are the values formatted into the error message; sent is
\* whether the request went out
callFirecrawlAPI(targetURL, reply) ==
    IF ~reply.key THEN Failure("FIRECRAWL_KEY not set", FALSE, 0, 0, <<>>)
    ELSE IF reply.net = "fail"
    THEN Failure("error making request to Firecrawl API", TRUE, 0, 0, <<>>)
    ELSE IF reply.status # StatusOK
    THEN Failure("Firecrawl API request failed with status", TRUE, reply.status, 0, <<>>)
    ELSE IF reply.net = "readfail"
    THEN Failure("error reading response body", TRUE, 0, 0, <<>>)
    ELSE IF ~reply.json
    THEN Failure("error unmarshalling Firecrawl API response", TRUE, 0, 0, <<>>)
    ELSE IF ~reply.success
    THEN (IF reply.error
          THEN Failure("Firecrawl API error", TRUE, 0, reply.code, reply.message)
          ELSE Failure("Firecrawl API call was not successful, but no error message was provided",
                       TRUE, 0, 0, <<>>))
    ELSE IF reply.markdown = <<>>
    THEN Failure("Firecrawl API returned success but markdown content is empty",
                 TRUE, 0, 0, <<>>)
    ELSE [markdown |-> reply.markdown, err |-> "", sent |-> TRUE, status |-> 0,
          code |-> 0, message |-> <<>>]

\* the answers tried on the session: one of each kind of failure, and success
\* with each listing
SessionDocs == {mockIndexMarkdownPage1, mockIndexMarkdownPage2,
                mockIndexMarkdownNoValidPosts}

ReplyKinds == {"nokey", "neterr", "status", "badjson", "apierror", "unsuccessful"}

ReplyOfKind(k) ==
    CASE k = "nokey"   -> Reply(FALSE, "ok", StatusOK, TRUE, TRUE, FALSE, 0, <<>>, <<>>)
      [] k = "neterr"  -> Reply(TRUE, "fail", StatusOK, TRUE, TRUE, FALSE, 0, <<>>, <<>>)
      [] k = "status"  -> Reply(TRUE, "ok", 500, FALSE, FALSE, FALSE, 0, <<>>, <<>>)
      [] k = "badjson" -> Reply(TRUE, "ok", StatusOK, FALSE, FALSE, FALSE, 0, <<>>, <<>>)
      [] k = "apierror" ->
             Reply(TRUE, "ok", StatusOK, TRUE, FALSE, TRUE, 4001, <<"Test API error">>, <<>>)
      [] k = "unsuccessful" ->
             Reply(TRUE, "ok", StatusOK, TRUE, FALSE, FALSE, 0, <<>>, <<>>)

FailedReplies == {ReplyOfKind(k) : k \in ReplyKinds}

Replies == FailedReplies \cup {OkReply(m) : m \in SessionDocs \cup {<<>>}}

----------------------------------------------------------------------------
(* src/ptt.go: GetAllFromURL *)

NoMeta == [ok |-> FALSE, title |-> <<>>, last |-> 0]

\* metaRegex tried at the start of line i.  The expression is
\*   ^\*\*Author\*\*:\s*(.*?)(?:\s*\(.*?\))?\s*\n\*\*Board\*\*:\s*(.*?)\s*\n
\*    \*\*Title\*\*:\s*(.*?)\s*\n\*\*Date\*\*:\s*(.*?)\s*$
\* Line i is an Author line; each \s*\n skips blank lines, so the Board line j,
\* the Title line k and the Date line follow with blank lines at most between
\* them.  The Author, Board and Date lines of the articles tried carry a
\* value.  The \s* after **Title**: is greedy and crosses line ends: when
\* nothing but white space follows on line k it first runs to the next line
\* n1 that is not blank, and group 3 is the whole of line n1 if a Date line n2
\* comes after it; only if that fails is group 3 empty with n1 the Date line.
metaRegexMatchAt(L, i) ==
    LET j  == NextNonBlank(L, i)
        k  == IF j = 0 THEN 0 ELSE NextNonBlank(L, j)
        n1 == IF k = 0 THEN 0 ELSE NextNonBlank(L, k)
        n2 == IF n1 = 0 THEN 0 ELSE NextNonBlank(L, n1)
    IN  IF L[i].kind = "author" /\ j # 0 /\ L[j].kind = "board"
           /\ k # 0 /\ L[k].kind = "title" /\ n1 # 0
        THEN IF TrimLeft(L[k].text) # <<>>
             THEN IF L[n1].kind = "date"
                  THEN [ok |-> TRUE, title |-> L[k].text, last |-> n1]
                  ELSE NoMeta
             ELSE IF n2 # 0 /\ L[n2].kind = "date"
             THEN [ok |-> TRUE, title |-> LineText(L[n1]), last |-> n2]
             ELSE IF L[n1].kind = "date"
             THEN [ok |-> TRUE, title |-> <<>>, last |-> n1]
             ELSE NoMeta
        ELSE NoMeta

\* metaRegex.FindStringSubmatch(markdown): the leftmost match
metaMatches(L) ==
    IF \E i \in 1..Len(L) : metaRegexMatchAt(L, i).ok
    THEN metaRegexMatchAt(L, CHOOSE i \in 1..Len(L) :
             metaRegexMatchAt(L, i).ok
             /\ \A h \in 1..(i-1) : ~metaRegexMatchAt(L, h).ok)
    ELSE NoMeta

\* simpleTitleRegex.FindStringSubmatch(markdown), the expression being
\*   ^\*\*Title\*\*:\s*(.*)
\* It matches at the first Title line k; the greedy \s* crosses line ends, so
\* when nothing but white space follows on line k the group is the next line
\* that is not blank, and is empty only if there is no such line.
titleMatch(L) ==
    IF \E k \in 1..Len(L) : L[k].kind = "title"
    THEN LET k == CHOOSE k \in 1..Len(L) :
                      L[k].kind = "title" /\ \A h \in 1..(k-1) : L[h].kind # "title"
             n == NextNonBlank(L, k)
         IN  [ok |-> TRUE, last |-> k,
              title |-> IF TrimLeft(L[k].text) # <<>> THEN L[k].text
                        ELSE IF n # 0 THEN LineText(L[n]) ELSE <<>>]
    ELSE NoMeta

\* article.Title after the metadata phase
ArticleTitle(L) ==
    IF metaMatches(L).ok THEN TrimSpace(metaMatches(L).title)
    ELSE IF titleMatch(L).ok THEN TrimSpace(titleMatch(L).title)
    ELSE <<>>

Contains(s, p) == \E i \in 1..(Len(s) - Len(p) + 1) : SubSeq(s, i, i + Len(p) - 1) = p

\* parts[len(parts)-1] of strings.Split(link, "/"), for a link with a "/"
\* after its scheme
LastSegment(link) ==
    LET last == CHOOSE i \in 1..Len(link) :
                    link[i] = "/" /\ \A h \in (i+1)..Len(link) : link[h] # "/"
    IN  SubSeq(link, last + 1, Len(link))

fixImgurLink(link) ==
    IF Contains(link, <<"http", "s", "://", "imgur.com", "/">>)
    THEN <<"http", "s", "://", "i.imgur.com", "/">> \o LastSegment(link) \o <<".jpeg">>
    ELSE link

ImageExts == {".jpg", ".jpeg", ".png", ".gif", ".bmp", ".webp"}

\* imageRegex on one line, the expression being
\*   !\[.*?\]\((https?://\S+?\.(?:jpg|jpeg|png|gif|bmp|webp))\)
imageRegexMatches(l) ==
    /\ l.kind = "image"
    /\ \/ HasPrefix(l.text, <<"http", "://">>) /\ Len(l.text) > 3
       \/ HasPrefix(l.text, <<"http", "s", "://">>) /\ Len(l.text) > 4
    /\ l.text[Len(l.text)] \in ImageExts
    /\ \A i \in 1..Len(l.text) : l.text[i] # SP

\* a faulty variant of foundImageURLs: a target seen before is not added again
foundImageURLsDedup(L) ==
    LET refs == SelectSeq(L, imageRegexMatches)
        keep == {i \in 1..Len(refs) : \A h \in 1..(i-1) : refs[h] # refs[i]}
    IN  [n \in 1..Cardinality(keep) |->
            fixImgurLink(refs[CHOOSE i \in keep :
                                  Cardinality({h \in keep : h < i}) = n - 1].text)]

\* imageRegex.FindAllStringSubmatch(markdown, -1), each target through
\* fixImgurLink
foundImageURLs(L) ==
    LET refs == SelectSeq(L, imageRegexMatches)
    IN  [n \in 1..Len(refs) |-> fixImgurLink(refs[n].text)]

\* The markdown as one string, every line ended by a line end.  Lengths and
\* positions count atoms, and a position is the number of atoms before it.
NL == "\n"

RECURSIVE Text(_)
Text(L) == IF L = <<>> THEN <<>> ELSE LineText(Head(L)) \o <<NL>> \o Text(Tail(L))

\* where line i begins, and where it ends (the position of its line end)
LineStart(L, i) == Len(Text(SubSeq(L, 1, i - 1)))

LineEnd(L, i) == LineStart(L, i) + Len(LineText(L[i]))

\* the line at which the leftmost match of metaRegex begins
metaMatchFirst(L) ==
    CHOOSE i \in 1..Len(L) :
        metaRegexMatchAt(L, i).ok /\ \A h \in 1..(i-1) : ~metaRegexMatchAt(L, h).ok

\* metaMatches[0], the text metaRegex matched.  It begins with the Author line
\* and ends with \s*$ after the date: the white space is taken as far as it
\* goes and given back up to the last line end in it, so the match ends in
\* front of the line end before the next line that is not blank, or at the
\* end of the markdown when only blank lines follow.
metaMatch0(L) ==
    LET n == NextNonBlank(L, metaMatches(L).last)
    IN  SubSeq(Text(L), LineStart(L, metaMatchFirst(L)) + 1,
               IF n = 0 THEN Len(Text(L)) ELSE LineEnd(L, n - 1))

\* titleMatchIndices[1], where the match of simpleTitleRegex ends: at the end
\* of the line its group is taken from
titleMatchEnd(L) ==
    LET k == titleMatch(L).last
        n == NextNonBlank(L, k)
    IN  IF TrimLeft(L[k].text) # <<>> THEN LineEnd(L, k)
        ELSE IF n # 0 THEN LineEnd(L, n) ELSE Len(Text(L))

\* contentStartIndex after the metadata phase
contentStartIndex(L) ==
    IF metaMatches(L).ok THEN Len(metaMatch0(L))
    ELSE IF titleMatch(L).ok THEN titleMatchEnd(L)
    ELSE 0

\* signatureRegex matches at position p of T: of its markers the articles
\* tried carry  --\s*$  (two dashes and nothing but white space up to a line
\* end) and the push marker followed by white space (the atom "TUI")
signatureAt(T, p) ==
    \/ /\ T[p + 1] = "--"
       /\ \E q \in (p + 1)..Len(T) :
              /\ \A h \in (p + 2)..q : T[h] \in {SP, NL}
              /\ (q = Len(T) \/ T[q + 1] = NL)
    \/ /\ T[p + 1] = "TUI"
       /\ p + 2 <= Len(T) /\ T[p + 2] \in {SP, NL}

\* signatureRegex.FindStringIndex(T)[0], -1 for nil; ^ holds at the start of
\* T and after every line end
signatureMatchIndex(T) ==
    LET at(p) == (p = 0 \/ T[p] = NL) /\ signatureAt(T, p)
    IN  IF \E p \in 0..(Len(T) - 1) : at(p)
        THEN CHOOSE p \in 0..(Len(T) - 1) : at(p) /\ \A h \in 0..(p - 1) : ~at(h)
        ELSE 0 - 1

\* contentEndIndex: the signature is searched in markdown[contentStartIndex:]
contentEndIndex(L) ==
    LET start == contentStartIndex(L)
        searchableMarkdownArea ==
            IF start <= Len(Text(L)) THEN SubSeq(Text(L), start + 1, Len(Text(L)))
            ELSE <<>>
        idx == signatureMatchIndex(searchableMarkdownArea)
    IN  IF idx # 0 - 1 THEN start + idx ELSE Len(Text(L))

\* rawContent := markdown[contentStartIndex:contentEndIndex], or ""
rawContent(L) ==
    LET start == contentStartIndex(L)
        end   == contentEndIndex(L)
    IN  IF end > start /\ start < Len(Text(L)) /\ end <= Len(Text(L))
        THEN SubSeq(Text(L), start + 1, end)
        ELSE <<>>

\* a faulty variant of GetAllFromURL: a failed fetch is told by like = -1
GetAllFromURLSentinel(url, reply) ==
    LET r == callFirecrawlAPI(url, reply)
    IN  IF r.err # ""
        THEN [title |-> <<>>, images |-> <<>>, like |-> 0 - 1, dis |-> 0]
        ELSE [title |-> ArticleTitle(r.markdown),
              images |-> foundImageURLs(r.markdown), like |-> 0, dis |-> 0]

\* what GetAllFromURL returns; a nil slice is the empty sequence
GetAllFromURL(url, reply) ==
    LET r == callFirecrawlAPI(url, reply)
    IN  IF r.err # ""
        THEN [title |-> <<>>, images |-> <<>>, like |-> 0, dis |-> 0]
        ELSE [title |-> ArticleTitle(r.markdown),
              images |-> foundImageURLs(r.markdown), like |-> 0, dis |-> 0]

\* the articles tried: metadata blocks, whole or with a line missing or with
\* an empty title, and loose lines, the image references among them
AuthorLine == Line("author", <<SP, "testuser", SP, "(", "Nick", ")">>)

BoardLine == Line("board", <<SP, "Beauty">>)

TitleLine(title) == Line("title", title)

DateLine == Line("date", <<SP, "Mon Jan 01">>)

PostTitle == <<SP, "[", "ZHENG", "MEI", "]", SP, "Typical">>

OtherTitle == <<SP, "Only Title", SP>>

EmptyTitle == <<SP>>

ImageLine(target) == Line("image", target)

ImageTargets ==
    {<<"http", "s", "://", "i.imgur.com", "/", "image1", ".jpg">>,
     <<"http", "s", "://", "imgur.com", "/", "shortID2", ".png">>,
     <<"http", "s", "://", "example.com", "/", "drawing", ".svg">>,
     <<"/", "img", "/", "local", ".jpg">>}

ArticleItems ==
    {<<AuthorLine, BoardLine, TitleLine(PostTitle), DateLine>>,
     <<AuthorLine, BoardLine, TitleLine(EmptyTitle), DateLine>>,
     <<BoardLine, TitleLine(PostTitle), DateLine>>,
     <<AuthorLine, BoardLine, DateLine>>,
     <<TitleLine(OtherTitle)>>,
     <<TitleLine(EmptyTitle)>>,
     <<BlankLine>>,
     <<Line("text", <<"Some text.">>)>>,
     <<Line("sig", <<"--">>)>>}
        \cup {<<ImageLine(t)>> : t \in ImageTargets}

Articles == {Flatten(items) : items \in UNION {[1..k -> ArticleItems] : k \in 0..MaxParts}}

ArticleReplies == FailedReplies \cup {OkReply(m) : m \in Articles}

----------------------------------------------------------------------------
(* The parts of the state that are at rest while another part is exercised *)

NoCall == [op |-> "none", page |-> 0, replace |-> FALSE, keyword |-> <<>>,
           url |-> <<>>, ok |-> FALSE, markdown |-> <<>>, prev |-> <<>>, ret |-> 0]

BnIdle == [active |-> FALSE, returned |-> FALSE, num |-> 0, page |-> 0, count |-> 0,
           ret |-> 0]

ScoreIdle == tok = <<>> /\ score = 0 /\ scoreDone = FALSE

ExtractIdle == md = <<>> /\ out = <<>> /\ extractDone = FALSE

SessIdle ==
    /\ storedPost = <<>>
    /\ lastCall = NoCall
    /\ prevCall = [same |-> FALSE, ret |-> 0]
    /\ bn = BnIdle

FetchIdle == fenv = NoReply /\ fres = NoResult /\ fdone = FALSE

NoArticle == [title |-> <<>>, images |-> <<>>, like |-> 0, dis |-> 0]

ArticleIdle == areply = NoReply /\ ares = NoArticle /\ adone = FALSE

NoAccess == [op |-> "none", index |-> 0, panic |-> FALSE, str |-> <<>>, num |-> 0]

AccessIdle == acc = NoAccess

Workers == 1..MaxWorkers

CrawlerIdle == [pc |-> "idle", workerNum |-> 0, spawned |-> 0, next |-> 1, ret |-> ""]

WorkerNone == [pc |-> "none", idx |-> 0]

CrawlIdle ==
    /\ crawler = CrawlerIdle
    /\ images = <<>>
    /\ workers = [w \in Workers |-> WorkerNone]
    /\ wg = 0
    /\ linkChanClosed = FALSE
    /\ disk = [dir |-> FALSE, files |-> {}]
    /\ handled = <<>>

----------------------------------------------------------------------------
(* callFirecrawlAPI applied to every answer of the service *)

Statuses == {StatusOK, 201, 404, 500}

FetchEnvs ==
    {Reply(key, net, status, json, success, error, code, message, markdown) :
        key \in BOOLEAN, net \in {"ok", "fail", "readfail"}, status \in Statuses,
        json \in BOOLEAN, success \in BOOLEAN, error \in BOOLEAN,
        code \in {0, 4001}, message \in {<<>>, <<"Test API error">>},
        markdown \in {<<>>, mockIndexMarkdownPage2}}

InitFetch ==
    /\ fenv \in FetchEnvs /\ fres = NoResult /\ fdone = FALSE
    /\ ScoreIdle /\ ExtractIdle /\ SessIdle /\ ArticleIdle /\ CrawlIdle /\ AccessIdle

ApplyFetch ==
    /\ ~fdone
    /\ fres' = callFirecrawlAPI(entryAddress, fenv)
    /\ fdone' = TRUE
    /\ UNCHANGED <<fenv, scoreVars, extractVars, sessVars, articleVars, crawlVars,
                   accessVars>>

NextFetch == ApplyFetch

SpecFetch == InitFetch /\ [][NextFetch]_vars

----------------------------------------------------------------------------
(* parsePushCount applied to every token *)


InitScore ==
    /\ tok \in Tokens /\ score = 0 /\ scoreDone = FALSE
    /\ ExtractIdle /\ SessIdle /\ FetchIdle /\ ArticleIdle /\ CrawlIdle /\ AccessIdle

ApplyPushCount ==
    /\ ~scoreDone
    /\ score' = parsePushCount(tok)
    /\ scoreDone' = TRUE
    /\ UNCHANGED <<tok, extractVars, sessVars, fetchVars, articleVars, crawlVars,
                   accessVars>>

NextScore == ApplyPushCount

SpecScore == InitScore /\ [][NextScore]_vars

----------------------------------------------------------------------------
(* parseMarkdownToPostDocs applied to every listing *)

InitExtract ==
    /\ md \in Markdowns /\ out = <<>> /\ extractDone = FALSE
    /\ ScoreIdle /\ SessIdle /\ FetchIdle /\ ArticleIdle /\ CrawlIdle /\ AccessIdle

ApplyParse ==
    /\ ~extractDone
    /\ out' = parseMarkdownToPostDocs(md, baseAddress)
    /\ extractDone' = TRUE
    /\ UNCHANGED <<md, scoreVars, sessVars, fetchVars, articleVars, crawlVars,
                   accessVars>>

NextExtract == ApplyParse

SpecExtract == InitExtract /\ [][NextExtract]_vars

----------------------------------------------------------------------------
(* GetAllFromURL applied to every article *)

InitArticle ==
    /\ areply \in ArticleReplies /\ ares = NoArticle /\ adone = FALSE
    /\ ScoreIdle /\ ExtractIdle /\ SessIdle /\ FetchIdle /\ CrawlIdle /\ AccessIdle

ApplyGetAllFromURL ==
    /\ ~adone
    /\ ares' = GetAllFromURL(baseAddress, areply)
    /\ adone' = TRUE
    /\ UNCHANGED <<areply, scoreVars, extractVars, sessVars, fetchVars, crawlVars,
                   accessVars>>

NextArticle == ApplyGetAllFromURL

SpecArticle == InitArticle /\ [][NextArticle]_vars

----------------------------------------------------------------------------
(* src/ptt.go: ParsePttPageByIndex, ParseSearchByKeyword, ParsePttByNumber *)

\* faulty variants of PageOnError: the session survives a failed replacing call;
\* a failed appending call clears the session
PageOnErrorKeep(stored, replace) == [stored |-> stored, ret |-> Len(stored)]

PageOnErrorClear(stored, replace) == [stored |-> <<>>, ret |-> 0]

\* the branch err != nil of ParsePttPageByIndex
PageOnError(stored, replace) ==
    IF replace THEN [stored |-> <<>>, ret |-> 0]
    ELSE [stored |-> stored, ret |-> Len(stored)]

\* faulty variants of PageOnFetched: the new records are put in front of the session;
\* a replacing call appends as well
PageOnFetchedPrepend(stored, replace, newlyParsedPosts) ==
    LET after == IF replace THEN newlyParsedPosts ELSE newlyParsedPosts \o stored
    IN  [stored |-> after, ret |-> Len(after)]

PageOnFetchedAlwaysAppend(stored, replace, newlyParsedPosts) ==
    LET after == stored \o newlyParsedPosts
    IN  [stored |-> after, ret |-> Len(after)]

\* the rest of ParsePttPageByIndex once the fetch has succeeded
PageOnFetched(stored, replace, newlyParsedPosts) ==
    LET after == IF replace THEN newlyParsedPosts ELSE stored \o newlyParsedPosts
    IN  [stored |-> after, ret |-> Len(after)]

\* a faulty variant of SearchResult: a failed search leaves the session as it was
SearchResultKeep(stored, r) ==
    IF r.err # "" THEN [stored |-> stored, ret |-> Len(stored)]
    ELSE LET after == parseMarkdownToPostDocs(r.markdown, baseAddress)
         IN  [stored |-> after, ret |-> Len(after)]

\* ParseSearchByKeyword after the fetch, r is what callFirecrawlAPI returned
SearchResult(stored, r) ==
    IF r.err # "" THEN [stored |-> <<>>, ret |-> 0]
    ELSE LET after == parseMarkdownToPostDocs(r.markdown, baseAddress)
         IN  [stored |-> after, ret |-> Len(after)]

\* history: was the call before call c the same request with the same answer
Remember(c) ==
    IF c.op = lastCall.op /\ c.page = lastCall.page /\ c.replace = lastCall.replace
       /\ c.keyword = lastCall.keyword /\ c.ok = lastCall.ok
       /\ c.markdown = lastCall.markdown
    THEN [same |-> TRUE, ret |-> lastCall.ret]
    ELSE [same |-> FALSE, ret |-> 0]

\* one call of ParsePttPageByIndex(page, replace), the service answering reply
PageCall(page, replace, reply) ==
    LET targetURL == PageURL(page)
        r   == callFirecrawlAPI(targetURL, reply)
        res == IF r.err # "" THEN PageOnError(storedPost, replace)
               ELSE PageOnFetched(storedPost, replace,
                                  parseMarkdownToPostDocs(r.markdown, baseAddress))
    IN  /\ Len(res.stored) <= MaxStored
        /\ storedPost' = res.stored
        /\ lastCall' = [op |-> "page", page |-> page, replace |-> replace,
                        keyword |-> <<>>, url |-> targetURL, ok |-> (r.err = ""),
                        markdown |-> r.markdown, prev |-> storedPost,
                        ret |-> res.ret]
        /\ prevCall' = Remember(lastCall')

Pages == 0..MaxPage

Keywords == {<<"k">>, <<"a", SP, "b">>, <<"a", "&", "MEI">>}

ParsePttPageByIndex(page, replace, reply) ==
    /\ ~bn.active
    /\ PageCall(page, replace, reply)
    /\ bn' = BnIdle
    /\ UNCHANGED <<scoreVars, extractVars, fetchVars, articleVars, crawlVars,
                   accessVars>>

ParseSearchByKeyword(keyword, reply) ==
    LET targetURL == SearchAddress \o keyword
        r   == callFirecrawlAPI(targetURL, reply)
        res == SearchResult(storedPost, r)
    IN  /\ ~bn.active
        /\ storedPost' = res.stored
        /\ lastCall' = [op |-> "search", page |-> 0, replace |-> TRUE,
                        keyword |-> keyword, url |-> targetURL, ok |-> (r.err = ""),
                        markdown |-> r.markdown, prev |-> storedPost,
                        ret |-> res.ret]
        /\ prevCall' = Remember(lastCall')
        /\ bn' = BnIdle
        /\ UNCHANGED <<scoreVars, extractVars, fetchVars, articleVars, crawlVars,
                   accessVars>>

\* a faulty variant of LoopCondition: the loop gives up one record early
LoopConditionEarly(count, num) == count + 1 < num

\* the condition of the loop  for count < num  of ParsePttByNumber
LoopCondition(count, num) == count < num

\* a faulty variant of PageAfter: the same page is asked for again
PageAfterSame(page) == page

\* page++
PageAfter(page) == page + 1

\* ParsePttByNumber(num, page) up to its loop: the first, replacing call
ParsePttByNumberCall(num, page, reply) ==
    /\ ~bn.active
    /\ PageCall(page, TRUE, reply)
    /\ bn' = IF lastCall'.ret > num
             THEN [active |-> FALSE, returned |-> TRUE, num |-> num, page |-> page,
                   count |-> lastCall'.ret, ret |-> lastCall'.ret]
             ELSE [active |-> TRUE, returned |-> FALSE, num |-> num,
                   page |-> PageAfter(page),
                   count |-> lastCall'.ret, ret |-> 0]
    /\ UNCHANGED <<scoreVars, extractVars, fetchVars, articleVars, crawlVars,
                   accessVars>>

\* one turn of the loop  for count < num
ParsePttByNumberLoop(reply) ==
    /\ bn.active
    /\ LoopCondition(bn.count, bn.num)
    /\ bn.page <= MaxPage
    /\ PageCall(bn.page, FALSE, reply)
    /\ bn' = [bn EXCEPT !.count = lastCall'.ret, !.page = PageAfter(bn.page)]
    /\ UNCHANGED <<scoreVars, extractVars, fetchVars, articleVars, crawlVars,
                   accessVars>>

\* the loop condition fails: return count
ParsePttByNumberReturn ==
    /\ bn.active
    /\ ~LoopCondition(bn.count, bn.num)
    /\ bn' = [bn EXCEPT !.active = FALSE, !.returned = TRUE, !.ret = bn.count]
    /\ UNCHANGED <<storedPost, lastCall, prevCall, scoreVars, extractVars,
                   fetchVars, articleVars, crawlVars,
                   accessVars>>

Init ==
    /\ SessIdle /\ ScoreIdle /\ ExtractIdle /\ FetchIdle /\ ArticleIdle /\ CrawlIdle
    /\ AccessIdle

Next ==
    \/ \E page \in Pages, replace \in BOOLEAN, reply \in Replies :
           ParsePttPageByIndex(page, replace, reply)
    \/ \E keyword \in Keywords, reply \in Replies :
           ParseSearchByKeyword(keyword, reply)
    \/ \E num \in 0..MaxNum, page \in Pages, reply \in Replies :
           ParsePttByNumberCall(num, page, reply)
    \/ \E reply \in Replies : ParsePttByNumberLoop(reply)
    \/ ParsePttByNumberReturn

Spec == Init /\ [][Next]_vars

----------------------------------------------------------------------------
(* src/ptt.go: GetPostTitleByIndex, GetPostUrlByIndex, GetPostStarByIndex *)

\* a faulty variant of BeyondEnd: the index just behind the last record passes
BeyondEndStrict(postIndex, n) == postIndex > n

\* if postIndex >= len(p.storedPost)
BeyondEnd(postIndex, n) == postIndex >= n

\* p.storedPost[postIndex]: Go counts from 0 and panics outside 0..len-1
IndexPanics(stored, postIndex) == postIndex < 0 \/ postIndex >= Len(stored)

\* what an accessor gives: the zero value behind the end, a panic when the
\* index expression fails, the field of the record otherwise
Access(op, stored, postIndex) ==
    IF BeyondEnd(postIndex, Len(stored))
    THEN [op |-> op, index |-> postIndex, panic |-> FALSE, str |-> <<>>, num |-> 0]
    ELSE IF IndexPanics(stored, postIndex)
    THEN [op |-> op, index |-> postIndex, panic |-> TRUE, str |-> <<>>, num |-> 0]
    ELSE LET post == stored[postIndex + 1]
         IN  [op |-> op, index |-> postIndex, panic |-> FALSE,
              str |-> CASE op = "title" -> post.ArticleTitle
                        [] op = "url"   -> post.URL
                        [] op = "star"  -> <<>>,
              num |-> IF op = "star" THEN post.Likeint ELSE 0]

GetPostTitleByIndex(postIndex) ==
    /\ acc' = Access("title", storedPost, postIndex)
    /\ UNCHANGED <<sessVars, scoreVars, extractVars, fetchVars, articleVars, crawlVars>>

GetPostUrlByIndex(postIndex) ==
    /\ acc' = Access("url", storedPost, postIndex)
    /\ UNCHANGED <<sessVars, scoreVars, extractVars, fetchVars, articleVars, crawlVars>>

GetPostStarByIndex(postIndex) ==
    /\ acc' = Access("star", storedPost, postIndex)
    /\ UNCHANGED <<sessVars, scoreVars, extractVars, fetchVars, articleVars, crawlVars>>

\* the sessions the accessors are tried on: what one listing call, or one
\* followed by an appending one, leaves behind
Sessions ==
    LET one == {parseMarkdownToPostDocs(m, baseAddress) : m \in SessionDocs}
    IN  {s \in one \cup {a \o b : a \in one, b \in one} : Len(s) <= MaxStored}

\* the indexes tried: two below 0, those of the records, two behind the end
Indexes == (0 - 2)..(MaxStored + 1)

InitAccess ==
    /\ storedPost \in Sessions
    /\ lastCall = NoCall /\ prevCall = [same |-> FALSE, ret |-> 0] /\ bn = BnIdle
    /\ AccessIdle
    /\ ScoreIdle /\ ExtractIdle /\ FetchIdle /\ ArticleIdle /\ CrawlIdle

NextAccess ==
    \/ \E postIndex \in Indexes : GetPostTitleByIndex(postIndex)
    \/ \E postIndex \in Indexes : GetPostUrlByIndex(postIndex)
    \/ \E postIndex \in Indexes : GetPostStarByIndex(postIndex)

SpecAccess == InitAccess /\ [][NextAccess]_vars

----------------------------------------------------------------------------
(* src/ptt.go: PTT.Crawler;  src/base.go: baseCrawler.worker *)

\* A link is [stem, ext, X, Y]: the target ends in  "/" stem "." ext  and the
\* image its host delivers is X wide and Y high
Link(stem, ext, X, Y) == [stem |-> stem, ext |-> ext, X |-> X, Y |-> Y]

Links == {Link("a", "jpg", 400, 400), Link("a", "jpeg", 400, 400),
          Link("b", "png", 400, 400), Link("c", "gif", 400, 400),
          Link("d", "png", 400, 300), Link("e", "jpg", 300, 400),
          Link("f", "jpg", 300, 300), Link("g", "jpg", 250, 250)}

ImageSeqs == UNION {[1..k -> Links] : k \in 0..MaxLinks}

\* imageId.FindStringSubmatch(target), imageId being ([^\/]+)\.(png|jpg|jpeg)
imageIdSubmatch(link) ==
    IF link.ext \in {"png", "jpg", "jpeg"}
    THEN <<<<link.stem, ".", link.ext>>, link.stem, link.ext>>
    ELSE <<>>

\* the file name in finalPath := destDir + "/" + imgInfo[1] + "." + ext
finalPath(link) ==
    LET imgInfo == imageIdSubmatch(link)
        ext == IF imgInfo[3] = "jpeg" THEN "jpg" ELSE imgInfo[3]
    IN  [stem |-> imgInfo[2], ext |-> ext]

\* switch ext { case "jpg": jpeg.Encode  case "png": png.Encode
\* case "gif": gif.Encode }: the encoder that fills the file, "" when no case
\* applies and the file stays empty
Encoder(ext) ==
    CASE ext = "jpg" -> "jpeg.Encode"
      [] ext = "png" -> "png.Encode"
      [] ext = "gif" -> "gif.Encode"
      [] OTHER       -> ""

\* a faulty variant of PassesSizeFilter: the threshold itself passes
PassesSizeFilterLoose(X, Y) == X >= 300 /\ Y >= 300

\* bounds.Size().X > 300 && bounds.Size().Y > 300
PassesSizeFilter(X, Y) == X > 300 /\ Y > 300

\* a faulty variant of WaitReturns: Crawler does not wait for the workers
WaitReturnsAtOnce(n) == TRUE

\* wg.Wait() returns when the counter is zero
WaitReturns(n) == n = 0

\* a faulty variant of WorkerAfterError: the worker returns on a failed link
WorkerAfterErrorReturn == "return"

\* where  continue  takes the worker: back to  for target := range linkChan
WorkerAfterError == "recv"

Pending(n) == [i \in 1..n |-> "pending"]

InitCrawl ==
    /\ crawler = CrawlerIdle
    /\ images \in ImageSeqs
    /\ workers = [w \in Workers |-> WorkerNone]
    /\ wg = 0
    /\ linkChanClosed = FALSE
    /\ disk \in {[dir |-> d, files |-> {}] : d \in BOOLEAN}
    /\ handled = Pending(Len(images))
    /\ ScoreIdle /\ ExtractIdle /\ SessIdle /\ FetchIdle /\ ArticleIdle /\ AccessIdle

\* Crawler(target, workerNum) up to the workers: the page is fetched (pageOk:
\* a document came back), the directory of the post is looked up and made
\* (mkdirOk: MkdirAll succeeded; its error is ignored), linkChan and wg are new
CrawlerCall(workerNum, pageOk, mkdirOk) ==
    /\ crawler.pc \in {"idle", "done"}
    /\ crawler' =
           [pc |-> IF pageOk /\ ~disk.dir THEN "spawn" ELSE "done",
            workerNum |-> workerNum, spawned |-> 0, next |-> 1,
            ret |-> IF ~pageOk THEN "nodoc" ELSE IF disk.dir THEN "exists" ELSE ""]
    /\ disk' = IF pageOk /\ ~disk.dir THEN [disk EXCEPT !.dir = mkdirOk] ELSE disk
    /\ workers' = [w \in Workers |-> WorkerNone]
    /\ wg' = 0
    /\ linkChanClosed' = FALSE
    /\ handled' = Pending(Len(images))
    /\ UNCHANGED <<images, scoreVars, extractVars, sessVars, fetchVars, articleVars,
                   accessVars>>

\* one turn of  for i := 0; i < workerNum; i++ { wg.Add(1); go p.worker(...) }
Spawn ==
    /\ crawler.pc = "spawn"
    /\ crawler.spawned < crawler.workerNum
    /\ wg' = wg + 1
    /\ workers' = [workers EXCEPT ![crawler.spawned + 1] = [WorkerNone EXCEPT !.pc = "recv"]]
    /\ crawler' = [crawler EXCEPT !.spawned = crawler.spawned + 1]
    /\ UNCHANGED <<images, linkChanClosed, disk, handled, scoreVars, extractVars,
                   sessVars, fetchVars, articleVars,
                   accessVars>>

\* the spawning loop ends; images := extractImageLinks(doc)
ExtractImageLinks ==
    /\ crawler.pc = "spawn"
    /\ ~(crawler.spawned < crawler.workerNum)
    /\ crawler' = [crawler EXCEPT !.pc = "send"]
    /\ UNCHANGED <<images, workers, wg, linkChanClosed, disk, handled, scoreVars,
                   extractVars, sessVars, fetchVars, articleVars,
                   accessVars>>

\* a faulty variant of AllSent: the loop over images stops before the last link
AllSentEarly(next, n) == next >= n

\* for _, imgLink := range images  is over: link number next does not exist
AllSent(next, n) == next > n

\* a faulty variant of Receive: every worker waiting at the channel gets the link
ReceiveBroadcast(ws, w, i) ==
    [v \in Workers |-> IF ws[v].pc = "recv"
                       THEN [WorkerNone EXCEPT !.pc = "fetch", !.idx = i]
                       ELSE ws[v]]

\* target := range linkChan  in worker w yields link i: the value of one send
\* goes to the one receiver the runtime pairs it with
Receive(ws, w, i) ==
    [ws EXCEPT ![w] = [WorkerNone EXCEPT !.pc = "fetch", !.idx = i]]

\* linkChan <- imgLink  meets  target := range linkChan  of worker w: the
\* channel has no buffer, the send completes when a worker receives
Send(w) ==
    /\ crawler.pc = "send"
    /\ ~AllSent(crawler.next, Len(images))
    /\ workers[w].pc = "recv"
    /\ workers' = Receive(workers, w, crawler.next)
    /\ handled' = [handled EXCEPT ![crawler.next] = "taken"]
    /\ crawler' = [crawler EXCEPT !.next = crawler.next + 1]
    /\ UNCHANGED <<images, wg, linkChanClosed, disk, scoreVars, extractVars,
                   sessVars, fetchVars, articleVars,
                   accessVars>>

\* close(linkChan) after the last send
Close ==
    /\ crawler.pc = "send"
    /\ AllSent(crawler.next, Len(images))
    /\ linkChanClosed' = TRUE
    /\ crawler' = [crawler EXCEPT !.pc = "wait"]
    /\ UNCHANGED <<images, workers, wg, disk, handled, scoreVars, extractVars,
                   sessVars, fetchVars, articleVars,
                   accessVars>>

\* wg.Wait() returns and so does Crawler
Wait ==
    /\ crawler.pc = "wait"
    /\ WaitReturns(wg)
    /\ crawler' = [crawler EXCEPT !.pc = "done", !.ret = "pool"]
    /\ UNCHANGED <<images, workers, wg, linkChanClosed, disk, handled, scoreVars,
                   extractVars, sessVars, fetchVars, articleVars,
                   accessVars>>

\* the link of worker w has failed: log and continue
Fail(w) ==
    /\ handled' = [handled EXCEPT ![workers[w].idx] = "error"]
    /\ workers' = [workers EXCEPT ![w] = [WorkerNone EXCEPT !.pc = WorkerAfterError]]

\* http.NewRequest, client.Do and image.Decode (with png.Decode as second
\* try) of worker w; outcome names the call that failed, or is "ok"
Fetch(w, outcome) ==
    /\ workers[w].pc = "fetch"
    /\ IF outcome = "ok"
       THEN /\ workers' = [workers EXCEPT ![w].pc = "filter"]
            /\ UNCHANGED handled
       ELSE Fail(w)
    /\ UNCHANGED <<crawler, images, wg, linkChanClosed, disk, scoreVars, extractVars,
                   sessVars, fetchVars, articleVars,
                   accessVars>>

\* the size test, imageId and os.Create of worker w; createOk is whether
\* os.Create succeeds in an existing directory
Filter(w, createOk) ==
    LET me   == workers[w]
        link == images[me.idx]
    IN  /\ me.pc = "filter"
        /\ IF ~PassesSizeFilter(link.X, link.Y)
           THEN /\ handled' = [handled EXCEPT ![me.idx] = "small"]
                /\ workers' = [workers EXCEPT ![w] = [WorkerNone EXCEPT !.pc = "recv"]]
                /\ UNCHANGED disk
           ELSE IF Len(imageIdSubmatch(link)) < 3 \/ ~(createOk /\ disk.dir)
           THEN Fail(w) /\ UNCHANGED disk
           ELSE /\ disk' = [disk EXCEPT !.files =
                               {f \in disk.files : f.name # finalPath(link)}
                                   \cup {[name |-> finalPath(link), X |-> link.X,
                                          Y |-> link.Y, encoded |-> FALSE,
                                          encoder |-> ""]}]
                /\ workers' = [workers EXCEPT ![w].pc = "encode"]
                /\ UNCHANGED handled
        /\ UNCHANGED <<crawler, images, wg, linkChanClosed, scoreVars, extractVars,
                       sessVars, fetchVars, articleVars,
                   accessVars>>

\* the encoder chosen by ext fills the file of worker w
Encode(w) ==
    LET me == workers[w]
    IN  /\ me.pc = "encode"
        /\ disk' = [disk EXCEPT !.files =
                        {IF f.name = finalPath(images[me.idx])
                         THEN [f EXCEPT !.encoded = TRUE,
                                        !.encoder = Encoder(f.name.ext)]
                         ELSE f : f \in disk.files}]
        /\ handled' = [handled EXCEPT ![me.idx] = "written"]
        /\ workers' = [workers EXCEPT ![w] = [WorkerNone EXCEPT !.pc = "recv"]]
        /\ UNCHANGED <<crawler, images, wg, linkChanClosed, scoreVars, extractVars,
                       sessVars, fetchVars, articleVars,
                   accessVars>>

\* a faulty variant of RangeOver: closing the channel does not end the loop
RangeOverNever(closed) == FALSE

\* for target := range linkChan  ends when the channel is closed (and empty,
\* which a channel without buffer always is)
RangeOver(closed) == closed

\* worker w returns, when the range over the closed channel ends (or from
\* inside the loop, which no branch of the code does): defer wg.Done()
RangeEnd(w) ==
    /\ \/ workers[w].pc = "recv" /\ RangeOver(linkChanClosed)
       \/ workers[w].pc = "return"
    /\ workers' = [workers EXCEPT ![w].pc = "exited"]
    /\ wg' = wg - 1
    /\ UNCHANGED <<crawler, images, linkChanClosed, disk, handled, scoreVars,
                   extractVars, sessVars, fetchVars, articleVars,
                   accessVars>>

NextCrawl ==
    \/ \E workerNum \in 0..MaxWorkers, pageOk \in BOOLEAN, mkdirOk \in BOOLEAN :
           CrawlerCall(workerNum, pageOk, mkdirOk)
    \/ Spawn
    \/ ExtractImageLinks
    \/ \E w \in Workers : Send(w)
    \/ Close
    \/ Wait
    \/ \E w \in Workers, outcome \in {"newrequest", "do", "decode", "ok"} :
           Fetch(w, outcome)
    \/ \E w \in Workers, createOk \in BOOLEAN : Filter(w, createOk)
    \/ \E w \in Workers : Encode(w)
    \/ \E w \in Workers : RangeEnd(w)

SpecCrawl == InitCrawl /\ [][NextCrawl]_vars

\* The same machine under the scheduling of the Go runtime: a goroutine that
\* can take a step takes one in the end, and a fetch that was started comes
\* back.  Calls of Crawler themselves are up to the caller.  The posts tried
\* have links to one large and one small image.
ProducerStep == Spawn \/ ExtractImageLinks \/ (\E w \in Workers : Send(w)) \/ Close \/ Wait

WorkerStep(w) ==
    \/ \E outcome \in {"newrequest", "do", "decode", "ok"} : Fetch(w, outcome)
    \/ \E createOk \in BOOLEAN : Filter(w, createOk)
    \/ Encode(w)
    \/ RangeEnd(w)

FairLinks == {Link("a", "jpg", 400, 400), Link("g", "jpg", 250, 250)}

InitCrawlFair ==
    /\ InitCrawl
    /\ \A i \in 1..Len(images) : images[i] \in FairLinks

SpecCrawlFair ==
    /\ InitCrawlFair /\ [][NextCrawl]_vars
    /\ WF_vars(ProducerStep)
    /\ \A w \in Workers : WF_vars(WorkerStep(w))

----------------------------------------------------------------------------
(* Properties of the session, checked under Spec *)

\* the records the page of the last call holds
Extracted == parseMarkdownToPostDocs(lastCall.markdown, baseAddress)

\* C1: after a successful fetch, ParsePttPageByIndex(page, true) leaves exactly
\* the records extracted from the page in the session; ParsePttPageByIndex(page,
\* false) leaves the previous session followed by the extracted records, so a
\* session of size A grows to size A+B with its first A entries unchanged; the
\* call returns the new size.
C1_ReplaceAndAppend ==
    (lastCall.op = "page" /\ lastCall.ok) =>
        IF lastCall.replace
        THEN storedPost = Extracted /\ lastCall.ret = Len(Extracted)
        ELSE /\ Len(storedPost) = Len(lastCall.prev) + Len(Extracted)
             /\ SubSeq(storedPost, 1, Len(lastCall.prev)) = lastCall.prev
             /\ SubSeq(storedPost, Len(lastCall.prev) + 1, Len(storedPost)) = Extracted
             /\ lastCall.ret = Len(lastCall.prev) + Len(Extracted)

C1_Witness ==
    /\ lastCall.op = "page" /\ lastCall.ok /\ ~lastCall.replace
    /\ lastCall.prev # <<>> /\ Extracted # <<>>
    /\ Len(storedPost) = Len(lastCall.prev) + Len(Extracted)

\* C2: when the fetch fails in ParsePttPageByIndex(page, true) the session is
\* empty afterwards and the call returns 0, whatever the session held.
C2_FailedReplaceClears ==
    (lastCall.op = "page" /\ ~lastCall.ok /\ lastCall.replace) =>
        (storedPost = <<>> /\ lastCall.ret = 0)

C2_Witness ==
    /\ lastCall.op = "page" /\ ~lastCall.ok /\ lastCall.replace
    /\ lastCall.prev # <<>> /\ storedPost = <<>>

\* C3: when the fetch fails in ParsePttPageByIndex(page, false) the session is
\* left as it was, record for record, and the call returns its size.
C3_FailedAppendKeeps ==
    (lastCall.op = "page" /\ ~lastCall.ok /\ ~lastCall.replace) =>
        (storedPost = lastCall.prev /\ lastCall.ret = Len(lastCall.prev))

C3_Witness ==
    /\ lastCall.op = "page" /\ ~lastCall.ok /\ ~lastCall.replace
    /\ lastCall.prev # <<>> /\ storedPost = lastCall.prev

\* C4: ParseSearchByKeyword always replaces: after a successful fetch the
\* session is exactly the records extracted from the search result and their
\* count is returned; after a failed fetch the session is empty and 0 is
\* returned, whatever the session held.
C4_SearchReplaces ==
    (lastCall.op = "search") =>
        IF lastCall.ok
        THEN storedPost = Extracted /\ lastCall.ret = Len(Extracted)
        ELSE storedPost = <<>> /\ lastCall.ret = 0

C4_Witness ==
    /\ lastCall.op = "search" /\ ~lastCall.ok
    /\ lastCall.prev # <<>> /\ storedPost = <<>>

\* C5: two calls ParsePttPageByIndex(0, true) in a row that are answered alike
\* return the same value and leave the same session, whatever the session
\* held before the first of them.
C5_ReplaceIdempotent ==
    (lastCall.op = "page" /\ lastCall.page = 0 /\ lastCall.replace /\ prevCall.same) =>
        (lastCall.ret = prevCall.ret /\ storedPost = lastCall.prev)

C5_Witness ==
    /\ lastCall.op = "page" /\ lastCall.page = 0 /\ lastCall.replace /\ prevCall.same
    /\ lastCall.ok /\ storedPost # <<>>

\* C6: every record of the session has a title that, trimmed, starts with the
\* category marker; a title that starts with "Re:" or with another tag is
\* never stored.
C6_OnlyBeautyTitles ==
    \A i \in 1..Len(storedPost) :
        LET t == TrimSpace(storedPost[i].ArticleTitle)
        IN  Len(t) >= 4 /\ t[1] = "[" /\ t[2] = "ZHENG" /\ t[3] = "MEI" /\ t[4] = "]"

C6_Witness ==
    /\ lastCall.ok /\ lastCall.markdown = mockIndexMarkdownPage1
    /\ Len(storedPost) >= 2

\* C10: ParsePttPageByIndex fetches the entry address for page 0 and
\* <baseAddress>/bbs/Beauty/index<page>.html for page > 0, whatever the session
\* holds and whatever was fetched before.
C10_PageURL ==
    (lastCall.op = "page") =>
        lastCall.url =
            IF lastCall.page = 0
            THEN <<"http", "s", "://", "www.ptt.cc", "/", "bbs", "/", "Beauty", "/",
                   "index", ".html">>
            ELSE <<"http", "s", "://", "www.ptt.cc", "/", "bbs", "/", "Beauty", "/",
                   "index">> \o Itoa(lastCall.page) \o <<".html">>

C10_Witness ==
    /\ lastCall.op = "page" /\ lastCall.page > 0
    /\ lastCall.prev # <<>> /\ prevCall.same

\* url.QueryEscape of the Go library on the characters of the keywords
QueryEscapeChar(c) ==
    CASE c = SP    -> <<"+">>
      [] c = "&"   -> <<"%26">>
      [] c = "#"   -> <<"%23">>
      [] c = "%"   -> <<"%25">>
      [] c = "MEI" -> <<"%E5%A6%B9">>
      [] OTHER     -> <<c>>

RECURSIVE QueryEscape(_)
QueryEscape(s) ==
    IF s = <<>> THEN <<>> ELSE QueryEscapeChar(Head(s)) \o QueryEscape(Tail(s))

\* C11: ParseSearchByKeyword fetches the search address followed by the
\* URL-escaped keyword, for every keyword, also one with a space, an
\* ampersand or a character outside ASCII.
C11_SearchURLEscaped ==
    (lastCall.op = "search") =>
        lastCall.url = <<"http", "s", "://", "www.ptt.cc", "/", "bbs", "/", "Beauty",
                         "/", "search?q=">> \o QueryEscape(lastCall.keyword)

C13_StopsWhenStalled ==
    [][(bn.active /\ ~lastCall.ok /\ bn.count < bn.num)
           => ~(bn'.active /\ bn'.page = bn.page + 1)]_vars

----------------------------------------------------------------------------
(* Properties of the score conversion, checked under SpecScore *)

IsDigits(s) == s # <<>> /\ \A i \in 1..Len(s) : s[i] \in Digits

IsNumber(s) == IsDigits(s) \/ (s # <<>> /\ Head(s) \in {"+", "-"} /\ IsDigits(Tail(s)))

NumberValue(s) ==
    IF Head(s) = "-" THEN 0 - DecVal(Tail(s))
    ELSE IF Head(s) = "+" THEN DecVal(Tail(s)) ELSE DecVal(s)

\* C8: parsePushCount maps the full-score token to 100, X followed by digits
\* to 0, the empty token to 0, any other token that is not a number to 0, and
\* a decimal number to its value.
C8_ScoreConversion ==
    scoreDone =>
        LET s == TrimSpace(tok)
        IN  /\ (s = <<"BAO">>) => score = 100
            /\ (s # <<>> /\ Head(s) = "X" /\ IsDigits(Tail(s))) => score = 0
            /\ (s = <<>>) => score = 0
            /\ (s # <<"BAO">> /\ ~IsNumber(s)) => score = 0
            /\ IsNumber(s) => score = NumberValue(s)

C8_Witness == scoreDone /\ tok = <<SP, "4", "2">> /\ score = 42

----------------------------------------------------------------------------
(* Properties of the listing parser, checked under SpecExtract *)

IsBlockAt(L, i) ==
    /\ i + 2 <= Len(L)
    /\ L[i].kind = "heading" /\ L[i+1].kind = "link" /\ L[i+2].kind = "meta"

\* the listing is made of well-formed post blocks and blank lines only
WellFormedListing(L) ==
    \A j \in 1..Len(L) :
        L[j].kind # "blank" =>
            \E i \in 1..Len(L) : IsBlockAt(L, i) /\ j \in i..(i+2)

Qualifies(title) == HasPrefix(TrimSpace(title), BeautyTag)

\* the qualifying blocks of a well-formed listing from line i on, in order
RECURSIVE QualifyingBlocks(_, _)
QualifyingBlocks(L, i) ==
    IF i > Len(L) THEN <<>>
    ELSE IF IsBlockAt(L, i)
    THEN (IF Qualifies(L[i].text)
          THEN <<[title |-> L[i].text, push |-> L[i+2].text]>> ELSE <<>>)
         \o QualifyingBlocks(L, i + 3)
    ELSE QualifyingBlocks(L, i + 1)

ExpectedScore(push) ==
    LET s == TrimSpace(push)
    IN  IF s = <<"BAO">> THEN 100 ELSE IF IsNumber(s) THEN NumberValue(s) ELSE 0

\* C7: a listing of N well-formed post blocks of which M pass the category
\* filter gives exactly M records, in the order of their blocks; a listing
\* whose blocks all fail the filter gives no record.
C7_OneRecordPerQualifyingBlock ==
    (extractDone /\ WellFormedListing(md)) =>
        LET q == QualifyingBlocks(md, 1)
        IN  /\ Len(out) = Len(q)
            /\ \A i \in 1..Len(q) : i <= Len(out) => out[i].ArticleTitle = q[i].title

\* C9: the score of a record comes from the push token of its own block: a
\* qualifying block with an empty token gives a record of score 0 and the
\* qualifying blocks after it still give their own records with their own
\* scores.
C9_ScoreFromOwnBlock ==
    (extractDone /\ WellFormedListing(md)) =>
        LET q == QualifyingBlocks(md, 1)
        IN  [i \in 1..Len(out) |-> out[i].Likeint]
                = [i \in 1..Len(q) |-> ExpectedScore(q[i].push)]

----------------------------------------------------------------------------
(* Properties of callFirecrawlAPI, checked under SpecFetch *)

\* the case an answer e falls in, the failures told apart in the order the
\* request meets them; okStatuses are the statuses that count as success and
\* transport says whether a failing transport is among the cases
ListedCase(e, okStatuses, transport) ==
    IF ~e.key THEN "nokey"
    ELSE IF transport /\ e.net = "fail" THEN "transport"
    ELSE IF e.status \notin okStatuses THEN "status"
    ELSE IF transport /\ e.net = "readfail" THEN "transport"
    ELSE IF ~e.json THEN "badjson"
    ELSE IF ~e.success THEN "unsuccessful"
    ELSE IF e.markdown = <<>> THEN "empty"
    ELSE "ok"

\* the result fres is the one case c asks for
AnswersCase(c) ==
    /\ c = "ok" => (fres.err = "" /\ fres.markdown = fenv.markdown)
    /\ c # "ok" => (fres.err # "" /\ fres.markdown = <<>>)
    /\ c = "nokey" => (fres.err = "FIRECRAWL_KEY not set" /\ ~fres.sent)
    /\ c = "transport" =>
           fres.err \in {"error making request to Firecrawl API",
                         "error reading response body"}
    /\ c = "status" =>
           (fres.err = "Firecrawl API request failed with status"
            /\ fres.status = fenv.status)
    /\ c = "badjson" => fres.err = "error unmarshalling Firecrawl API response"
    /\ c = "unsuccessful" =>
           IF fenv.error
           THEN /\ fres.err = "Firecrawl API error"
                /\ fres.code = fenv.code /\ fres.message = fenv.message
           ELSE fres.err = "Firecrawl API call was not successful, but no error message was provided"
    /\ c = "empty" =>
           fres.err = "Firecrawl API returned success but markdown content is empty"

\* C17 as stated: callFirecrawlAPI fails with empty content and a message of
\* its own when the credential is missing (no request is sent), on a status
\* that is not 2xx, on a malformed body, on success=false (code and message
\* preserved) and on success=true with empty markdown; in every other case it
\* returns data.markdown unchanged.
C17_Original == fdone => AnswersCase(ListedCase(fenv, 200..299, FALSE))

\* C17 amended: the failures are a missing credential (no request is sent), a
\* transport that fails on sending or on reading the body, a status other
\* than 200, a malformed body, success=false (code and message preserved when
\* the body has an error object) and success=true with empty markdown, each
\* with a message of its own and empty content; in every other case
\* data.markdown is returned unchanged.
C17_FailureCases == fdone => AnswersCase(ListedCase(fenv, {200}, TRUE))

C17_Witness ==
    /\ fdone /\ fenv.key /\ fenv.net = "ok" /\ fenv.status = 200 /\ fenv.json
    /\ ~fenv.success /\ fenv.error /\ fenv.code = 4001
    /\ fres.err = "Firecrawl API error" /\ fres.code = 4001
    /\ fres.message = <<"Test API error">>

----------------------------------------------------------------------------
(* Properties of GetAllFromURL, checked under SpecArticle *)

FetchedArticle == adone /\ callFirecrawlAPI(baseAddress, areply).err = ""

\* lines i..i+3 are the Author, Board, Title and Date lines of a block
IsMetaBlockAt(L, i) ==
    /\ i + 3 <= Len(L)
    /\ L[i].kind = "author" /\ L[i+1].kind = "board"
    /\ L[i+2].kind = "title" /\ L[i+3].kind = "date"

\* the title the fallback chain names: the Title value of the first whole
\* block, else the value of the first Title line, else nothing
ExpectedTitle(L) ==
    IF \E i \in 1..Len(L) : IsMetaBlockAt(L, i)
    THEN LET i == CHOOSE i \in 1..Len(L) :
                      IsMetaBlockAt(L, i) /\ \A h \in 1..(i-1) : ~IsMetaBlockAt(L, h)
         IN  TrimSpace(L[i+2].text)
    ELSE IF \E k \in 1..Len(L) : L[k].kind = "title"
    THEN LET k == CHOOSE k \in 1..Len(L) :
                      L[k].kind = "title" /\ \A h \in 1..(k-1) : L[h].kind # "title"
         IN  TrimSpace(L[k].text)
    ELSE <<>>

\* C14: the title GetAllFromURL returns is the Title value of the metadata
\* block if the whole block is there; otherwise the trimmed value of a
\* standalone Title line if there is one; otherwise it is empty.
C14_TitleFallbackChain ==
    FetchedArticle => ares.title = ExpectedTitle(areply.markdown)

EndsInImageExt(l) ==
    l.kind = "image" /\ l.text # <<>> /\ l.text[Len(l.text)] \in ImageExts

IsHTTPImage(l) ==
    /\ EndsInImageExt(l)
    /\ HasPrefix(l.text, <<"http", "://">>) \/ HasPrefix(l.text, <<"http", "s", "://">>)

C16_FailureGivesZeroValues ==
    adone =>
        /\ ares.like = 0 /\ ares.dis = 0
        /\ (~areply.key \/ areply.net # "ok" \/ areply.status # 200 \/ ~areply.success)
               => (ares.title = <<>> /\ ares.images = <<>>)

C16_Witness ==
    /\ adone /\ areply.key /\ areply.status = 200 /\ ~areply.success
    /\ ares = [title |-> <<>>, images |-> <<>>, like |-> 0, dis |-> 0]

\* the records the page of the call made in this step holds
ExtractedNext == parseMarkdownToPostDocs(lastCall'.markdown, baseAddress)

\* C27: ParsePttByNumber(num, page) asks for the pages page, page+1, page+2,
\* ... in this order, none left out and none twice; its first call replaces
\* and every later call appends.  So each call adds the records of its page, if
\* the page was fetched, behind those of the pages before it, and the session
\* on return is the records of the fetched pages in page order.
C27_PagesInOrder ==
    [][/\ (~bn.active /\ (bn'.active \/ bn'.returned)) =>
              /\ lastCall'.op = "page" /\ lastCall'.replace
              /\ bn'.active => bn'.page = lastCall'.page + 1
              /\ storedPost' = IF lastCall'.ok THEN ExtractedNext ELSE <<>>
       /\ (bn.active /\ bn'.active) =>
              /\ lastCall'.op = "page" /\ ~lastCall'.replace
              /\ lastCall'.page = bn.page
              /\ lastCall.op = "page" /\ lastCall'.page = lastCall.page + 1
              /\ bn'.page = bn.page + 1
              /\ storedPost' = storedPost \o (IF lastCall'.ok THEN ExtractedNext ELSE <<>>)
       /\ (bn.active /\ ~bn'.active) =>
              /\ bn'.returned
              /\ UNCHANGED <<storedPost, lastCall>>]_vars

C27_Witness ==
    /\ bn.returned /\ bn.page = 3
    /\ lastCall.op = "page" /\ ~lastCall.replace /\ lastCall.ok /\ lastCall.page = 2
    /\ lastCall.prev # <<>> /\ Len(storedPost) > Len(lastCall.prev)

----------------------------------------------------------------------------
(* A further property of the parser, checked under SpecExtract *)

\* C24: every record a listing call stores, that is, every record the parser
\* extracts from the listing fetched, whose title carries the Beauty tag has a
\* URL that is not empty, is absolute and is accepted by HasValidURL, that is,
\* names an article.
C24_StoredURLsValid ==
    extractDone =>
        \A i \in 1..Len(out) :
            CheckTitleWithBeauty(out[i].ArticleTitle) =>
                /\ out[i].URL # <<>>
                /\ HasPrefix(out[i].URL, <<"http">>)
                /\ HasValidURL(out[i].URL)

----------------------------------------------------------------------------
(* Properties of Crawler and its workers, checked under SpecCrawl *)

PoolReturned == crawler.pc = "done" /\ crawler.ret = "pool"

Settled(i) == handled[i] \in {"error", "small", "written"}

\* C18: Crawler starts exactly workerNum workers and, once it has returned,
\* every link has been taken from the queue and no worker is still fetching,
\* decoding or writing.
C18_ReturnsAfterWorkers ==
    PoolReturned =>
        /\ crawler.spawned = crawler.workerNum
        /\ Cardinality({w \in Workers : workers[w].pc # "none"}) = crawler.workerNum
        /\ crawler.next = Len(images) + 1
        /\ \A i \in 1..Len(images) : handled[i] # "pending"
        /\ \A w \in Workers : workers[w].pc \in {"none", "exited"}

C18_Witness ==
    /\ PoolReturned /\ crawler.workerNum = 2 /\ Len(images) = 2
    /\ handled[1] = "written" /\ handled[2] = "written"

\* C19: a link that fails in a worker stops neither that worker nor the pool:
\* a worker returns only when the queue is closed, and when Crawler has
\* returned every link, also those after a failed one, has been dealt with.
C19_FailureIsolated ==
    /\ \A w \in Workers : workers[w].pc \in {"return", "exited"} => linkChanClosed
    /\ PoolReturned =>
           \A i \in 1..Len(images) :
               handled[i] = "error" => \A j \in (i+1)..Len(images) : Settled(j)

C19_Witness ==
    /\ PoolReturned /\ crawler.workerNum = 1 /\ Len(images) = 2
    /\ handled[1] = "error" /\ handled[2] = "written"

\* C20: a worker creates a file only for an image wider than 300 and higher
\* than 300; an image with a side of 300 or less leaves the directory as it
\* is and is passed over without being counted as a failure.
C20_SizeFilter ==
    [][/\ \A f \in disk'.files : f.X > 300 /\ f.Y > 300
       /\ \A w \in Workers :
              (workers[w].pc = "filter" /\ workers'[w] # workers[w]
               /\ (images[workers[w].idx].X <= 300 \/ images[workers[w].idx].Y <= 300))
                  => (disk' = disk /\ handled'[workers[w].idx] = "small")]_vars

C20_Witness ==
    /\ PoolReturned /\ Len(images) = 2
    /\ handled[1] = "small" /\ handled[2] = "written"
    /\ Cardinality(disk.files) = 1

\* the extensions the claims call recognized formats
RecognizedExts == {"jpg", "jpeg", "png", "gif"}

CanonicalExt(ext) == IF ext = "jpeg" THEN "jpg" ELSE ext

\* C21: when a decoded image larger than 300 x 300 comes from a link ending
\* in jpg, jpeg, png or gif and the file can be created, the worker creates
\* <destDir>/<stem>.<ext> (jpeg written as jpg), and the file it then fills is
\* encoded as JPEG for jpg, PNG for png and GIF for gif.
C21_FileNameAndEncoder ==
    [][\A w \in Workers :
          LET link == images[workers[w].idx]
              name == [stem |-> link.stem, ext |-> CanonicalExt(link.ext)]
          IN  /\ (/\ Filter(w, TRUE)
                  /\ disk.dir
                  /\ link.X > 300 /\ link.Y > 300
                  /\ link.ext \in RecognizedExts)
                     => /\ workers'[w].pc = "encode"
                        /\ \E f \in disk'.files : f.name = name
              /\ Encode(w) =>
                     \E f \in disk'.files :
                         /\ f.name = name
                         /\ f.encoder = CASE name.ext = "jpg" -> "jpeg.Encode"
                                           [] name.ext = "png" -> "png.Encode"
                                           [] name.ext = "gif" -> "gif.Encode"]_vars

\* a call of Crawler begins: between calls nothing else can happen
CrawlerBegins == crawler.pc \in {"idle", "done"} /\ crawler'.pc # "idle"

\* C22: a call of Crawler that finds the directory of the post starts no
\* worker, fetches no image, leaves the directory as it is and returns; and
\* the call that follows one that went through the downloads does not go
\* through them again, whatever the first one has written.
C22_IdempotentSkip ==
    [][CrawlerBegins =>
          /\ disk.dir =>
                 /\ crawler'.pc = "done"
                 /\ crawler'.spawned = 0 /\ wg' = 0
                 /\ \A w \in Workers : workers'[w].pc = "none"
                 /\ \A i \in 1..Len(images) : handled'[i] = "pending"
                 /\ disk' = disk
          /\ (/\ crawler.pc = "done" /\ crawler.ret = "pool"
              /\ \E i \in 1..Len(images) : handled[i] # "pending")
                 => ~(crawler'.pc = "spawn" /\ crawler'.workerNum >= 1)]_vars

\* worker w has created its file and not yet finished encoding into it
Writing(w) == workers[w].pc = "encode"

\* C23: at no time are two workers writing the same file of the directory:
\* links that are processed at the same time have different file names.
C23_NoSharedOpenFile ==
    \A v, w \in Workers :
        (v # w /\ Writing(v) /\ Writing(w))
            => finalPath(images[workers[v].idx]) # finalPath(images[workers[w].idx])

\* the workers that hold link i: they have received it and are not done with it
Holders(ws, i) == {w \in Workers : ws[w].idx = i /\ ws[w].pc \in {"fetch", "filter", "encode"}}

\* C25: a link sent to the pool is received by exactly one worker.  A worker
\* receives only a link no worker has had before, no two workers hold the
\* same link, a link that was sent is either held by one worker or has been
\* dealt with, and once the pool has returned every link has been dealt with.
C25_ExactlyOnce ==
    [][~CrawlerBegins =>
          /\ \A w \in Workers :
                 (workers'[w].idx # 0 /\ workers'[w].idx # workers[w].idx)
                     => /\ handled[workers'[w].idx] = "pending"
                        /\ workers'[w].idx = crawler.next
                        /\ crawler'.next = crawler.next + 1
          /\ \A i \in 1..Len(images) :
                 /\ Cardinality(Holders(workers', i)) <= 1
                 /\ i < crawler'.next =>
                        \/ handled'[i] = "taken" /\ Cardinality(Holders(workers', i)) = 1
                        \/ Settled(i)' /\ Holders(workers', i) = {}
                 /\ i >= crawler'.next => handled'[i] = "pending"
          /\ PoolReturned' => \A i \in 1..Len(images) : Settled(i)']_vars

C25_Witness ==
    /\ Len(images) = 2 /\ crawler.pc = "wait"
    /\ workers[1] = [pc |-> "filter", idx |-> 2]
    /\ workers[2] = [pc |-> "encode", idx |-> 1]

\* the producer stands at  linkChan <- imgLink  with a link in hand
AtSend == crawler.pc = "send" /\ crawler.next <= Len(images)

\* the send the producer stands at can complete
SendCanComplete == \E w \in Workers : ENABLED Send(w)

\* the channel is closed only after the last link, and nothing is sent after
CloseAfterLastSend ==
    /\ (linkChanClosed' /\ ~linkChanClosed) =>
           /\ crawler.next = Len(images) + 1
           /\ \A i \in 1..Len(images) : handled[i] # "pending"
    /\ linkChanClosed => (linkChanClosed' /\ crawler'.next = crawler.next)

\* C26 as stated: the queue is unbounded, so the producer enqueues every
\* link without waiting for a worker to take one (whenever it has a link in
\* hand the send can complete); it closes the queue only after the last link
\* is enqueued and never sends after closing.
C26_Original ==
    [][~CrawlerBegins =>
          /\ AtSend' => SendCanComplete'
          /\ CloseAfterLastSend]_vars

\* C26 as amended: the queue is a channel without buffer.  The producer hands
\* the links over one at a time and in order, a send completes only in the
\* step in which a worker waiting at the channel receives the link, the
\* channel is closed only after the last link has been received, and nothing
\* is sent after it is closed.
C26_HandOver ==
    [][~CrawlerBegins =>
          /\ crawler'.next # crawler.next =>
                 /\ AtSend /\ ~linkChanClosed
                 /\ crawler'.next = crawler.next + 1
                 /\ \E w \in Workers :
                        /\ workers[w].pc = "recv"
                        /\ workers'[w] = [pc |-> "fetch", idx |-> crawler.next]
          /\ CloseAfterLastSend]_vars

\* the producer has to wait with the second link while the only worker is busy
\* with the first
C26_Witness ==
    /\ AtSend /\ ~SendCanComplete
    /\ crawler.workerNum = 1 /\ crawler.next = 2
    /\ workers[1] = [pc |-> "encode", idx |-> 1]

----------------------------------------------------------------------------
(* A further property of GetAllFromURL, checked under SpecArticle *)

\* where the metadata block, or else the fallback title match, ends in the
\* markdown; 0 when there is neither
MetadataEnd(L) ==
    IF metaMatches(L).ok THEN LineStart(L, metaMatchFirst(L)) + Len(metaMatch0(L))
    ELSE IF titleMatch(L).ok THEN titleMatchEnd(L)
    ELSE 0

\* the start of the first signature marker at or after position from, the end
\* of the markdown if there is none
FirstSignatureFrom(L, from) ==
    LET T == Text(L)
        at(p) == (p = 0 \/ T[p] = NL) /\ signatureAt(T, p)
    IN  IF \E p \in from..(Len(T) - 1) : at(p)
        THEN CHOOSE p \in from..(Len(T) - 1) : at(p) /\ \A h \in from..(p - 1) : ~at(h)
        ELSE Len(T)

\* C28: the content slice of GetAllFromURL begins where the metadata block
\* ends in the markdown (or where the fallback title match ends, or at 0) and
\* ends where the first signature marker after that begins, also when text
\* such as a blank line stands before the metadata block; nothing of the
\* metadata block is in the content.
C28_ContentSlice ==
    (adone /\ FetchedArticle) =>
        LET L == areply.markdown
        IN  /\ contentStartIndex(L) = MetadataEnd(L)
            /\ contentEndIndex(L) = FirstSignatureFrom(L, MetadataEnd(L))
            /\ rawContent(L) = SubSeq(Text(L), MetadataEnd(L) + 1,
                                      FirstSignatureFrom(L, MetadataEnd(L)))

----------------------------------------------------------------------------
(* Termination of Crawler, checked under SpecCrawlFair *)

\* the call has come to the pool: the page was fetched and the post has no
\* directory yet
InPool == crawler.pc \in {"spawn", "send", "wait"}

\* C29: with every fetch coming back, a call of Crawler that comes to the pool
\* returns if and only if workerNum >= 1 or the post has no image link: with a
\* worker it returns after the links have been handed over and dealt with,
\* with workerNum = 0 and a link it stays at its first send for ever.
C29_TerminatesIffWorkers ==
    /\ [](InPool =>
              IF crawler.workerNum >= 1 \/ Len(images) = 0
              THEN <>PoolReturned
              ELSE [](InPool /\ crawler.next = 1))

C29_Witness ==
    /\ crawler.pc = "send" /\ crawler.workerNum = 0 /\ crawler.next = 1
    /\ Len(images) = 2 /\ ~SendCanComplete /\ ~linkChanClosed

----------------------------------------------------------------------------
(* Properties of the indexed accessors, checked under SpecAccess *)

\* C30: GetPostTitleByIndex, GetPostUrlByIndex and GetPostStarByIndex leave
\* the session as it is; for 0 <= i < count they give the field of record i,
\* for i >= count the zero value ("", "", 0), and for i < 0, which the guard
\* lets through, the index expression fails at run time.
C30_Accessors ==
    [][/\ storedPost' = storedPost
       /\ LET i     == acc'.index
              count == Len(storedPost)
          IN  /\ (0 <= i /\ i < count) =>
                     /\ ~acc'.panic
                     /\ acc'.op = "title" => acc'.str = storedPost[i + 1].ArticleTitle
                     /\ acc'.op = "url" => acc'.str = storedPost[i + 1].URL
                     /\ acc'.op = "star" => acc'.num = storedPost[i + 1].Likeint
              /\ i >= count => (~acc'.panic /\ acc'.str = <<>> /\ acc'.num = 0)
              /\ i < 0 => acc'.panic]_vars

C30_Witness ==
    /\ acc.op = "star" /\ acc.index = 1 /\ Len(storedPost) = 2
    /\ acc.num = storedPost[2].Likeint /\ acc.num > 0

====
